---- MODULE Spec2Model ----
(* Detection-to-notification pipeline of the surveillance platform:        *)
(* alerts/utils.py (process_detection and its helpers), the human action   *)
(* views of alerts/views.py (acknowledge, resolve, toggle_rule) and the    *)
(* websocket handlers of alerts/consumers.py.                              *)
(*                                                                         *)
(* Time is counted in minutes.  now is the number of minutes elapsed since *)
(* the start of the run, epoch the minute of the week (Monday 00:00 = 0)   *)
(* at which the run started.  A database row is a record; Model.save()     *)
(* writes every field of the in-memory object back to the row.             *)
EXTENDS Integers, Sequences, FiniteSets, TLC

---------------------------------------------------------------------------
(* Bounds of the model *)

MaxTime == 2
MaxAlerts == 3
MaxCalls == 2
MaxRequests == 2
MaxToggles == 1

(* Values *)

NULL == -1
NoUser == 0
Procs == {1, 2}
Reqs == {1, 2}
Users == {1, 2}
RuleIds == {1, 2}
EventIds == {1, 2}
RecipientIds == {1, 2, 3, 4}
ChannelIds == {1, 2, 3, 4}
Notes == {"", "n1"}

KnownTriggerTypes ==
    {"detection_type", "severity_level", "camera", "zone", "time_window",
     "confidence_threshold"}

Severities == {"low", "medium", "high", "critical"}

---------------------------------------------------------------------------
(* Helpers *)

\* dict.get(key, default)
DictGet(d, k, default) == IF k \in DOMAIN d THEN d[k] ELSE default

Min(S) == CHOOSE x \in S : \A y \in S : x <= y

RECURSIVE SetToSeq(_)
\* the elements of a finite set of integers in increasing order
SetToSeq(S) == IF S = {} THEN <<>> ELSE <<Min(S)>> \o SetToSeq(S \ {Min(S)})

RECURSIVE Flatten(_)
Flatten(ss) == IF ss = <<>> THEN <<>> ELSE Head(ss) \o Flatten(Tail(ss))

\* wall-clock readings of the instant t minutes after the start of the run
HourOf(ep, t) == ((ep + t) \div 60) % 24
MinuteOfDay(ep, t) == (ep + t) % 1440
WeekdayOf(ep, t) == ((ep + t) \div 1440) % 7

---------------------------------------------------------------------------
(* Rule Matcher: alerts/utils.py should_trigger_alert *)

\* severity_order.get(s, 0)
SeverityOrder(s) ==
    CASE s = "low" -> 0
      [] s = "medium" -> 1
      [] s = "high" -> 2
      [] s = "critical" -> 3
      [] OTHER -> 0

\* lines 53-56: the cooldown gate on the rule object handed to the function
InCooldown(rule, t) ==
    /\ rule.last_triggered # NULL
    /\ t - rule.last_triggered < rule.cooldown_minutes

\* window['start'] / window['end'] raise KeyError on an entry lacking a key.
\* any() evaluates the windows in order and stops at the first match.
RECURSIVE WindowsRaise(_, _)
WindowsRaise(ws, h) ==
    IF ws = <<>> THEN FALSE
    ELSE IF ~({"start", "end"} \subseteq DOMAIN Head(ws))
              /\ ~("start" \in DOMAIN Head(ws) /\ ~(Head(ws).start <= h))
         THEN TRUE
    ELSE IF {"start", "end"} \subseteq DOMAIN Head(ws)
              /\ Head(ws).start <= h /\ h <= Head(ws).end
         THEN FALSE
    ELSE WindowsRaise(Tail(ws), h)

\* TRUE when should_trigger_alert raises instead of returning
ShouldTriggerRaises(rule, ev, ep, t) ==
    /\ ~InCooldown(rule, t)
    /\ rule.trigger_type = "time_window"
    /\ WindowsRaise(DictGet(rule.trigger_conditions, "time_windows", <<>>),
                    HourOf(ep, t))

\* the confidence threshold read as a strict bound
ConditionMatchesStrict(rule, ev, ep, t) ==
    LET c == rule.trigger_conditions IN
    CASE rule.trigger_type = "detection_type" ->
            ev.event_type \in DictGet(c, "event_types", {})
      [] rule.trigger_type = "severity_level" ->
            SeverityOrder(ev.severity)
                >= SeverityOrder(DictGet(c, "min_severity", "low"))
      [] rule.trigger_type = "confidence_threshold" ->
            ev.confidence > DictGet(c, "min_confidence", 5)
      [] rule.trigger_type = "camera" ->
            ev.camera_id \in DictGet(c, "camera_ids", {})
      [] rule.trigger_type = "zone" ->
            ev.zone_id \in DictGet(c, "zone_ids", {})
      [] rule.trigger_type = "time_window" ->
            LET ws == DictGet(c, "time_windows", <<>>) IN
            \E i \in 1..Len(ws) :
                /\ {"start", "end"} \subseteq DOMAIN ws[i]
                /\ ws[i].start <= HourOf(ep, t)
                /\ HourOf(ep, t) <= ws[i].end
      [] OTHER -> TRUE

\* the dispatch rejecting a trigger type it does not know
ConditionMatchesKnownOnly(rule, ev, ep, t) ==
    LET c == rule.trigger_conditions IN
    CASE rule.trigger_type = "detection_type" ->
            ev.event_type \in DictGet(c, "event_types", {})
      [] rule.trigger_type = "severity_level" ->
            SeverityOrder(ev.severity)
                >= SeverityOrder(DictGet(c, "min_severity", "low"))
      [] rule.trigger_type = "confidence_threshold" ->
            ev.confidence >= DictGet(c, "min_confidence", 5)
      [] rule.trigger_type = "camera" ->
            ev.camera_id \in DictGet(c, "camera_ids", {})
      [] rule.trigger_type = "zone" ->
            ev.zone_id \in DictGet(c, "zone_ids", {})
      [] rule.trigger_type = "time_window" ->
            LET ws == DictGet(c, "time_windows", <<>>) IN
            \E i \in 1..Len(ws) :
                /\ {"start", "end"} \subseteq DOMAIN ws[i]
                /\ ws[i].start <= HourOf(ep, t)
                /\ HourOf(ep, t) <= ws[i].end
      [] OTHER -> FALSE

\* a window whose start is after its end read as wrapping past midnight
ConditionMatchesWrapping(rule, ev, ep, t) ==
    LET c == rule.trigger_conditions IN
    CASE rule.trigger_type = "detection_type" ->
            ev.event_type \in DictGet(c, "event_types", {})
      [] rule.trigger_type = "severity_level" ->
            SeverityOrder(ev.severity)
                >= SeverityOrder(DictGet(c, "min_severity", "low"))
      [] rule.trigger_type = "confidence_threshold" ->
            ev.confidence >= DictGet(c, "min_confidence", 5)
      [] rule.trigger_type = "camera" ->
            ev.camera_id \in DictGet(c, "camera_ids", {})
      [] rule.trigger_type = "zone" ->
            ev.zone_id \in DictGet(c, "zone_ids", {})
      [] rule.trigger_type = "time_window" ->
            LET ws == DictGet(c, "time_windows", <<>>) IN
            \E i \in 1..Len(ws) :
                /\ {"start", "end"} \subseteq DOMAIN ws[i]
                /\ IF ws[i].start <= ws[i].end
                   THEN /\ ws[i].start <= HourOf(ep, t)
                        /\ HourOf(ep, t) <= ws[i].end
                   ELSE \/ ws[i].start <= HourOf(ep, t)
                        \/ HourOf(ep, t) <= ws[i].end
      [] OTHER -> TRUE

\* lines 58-81: the dispatch on the trigger type; confidences are in tenths
ConditionMatches(rule, ev, ep, t) ==
    LET c == rule.trigger_conditions IN
    CASE rule.trigger_type = "detection_type" ->
            ev.event_type \in DictGet(c, "event_types", {})
      [] rule.trigger_type = "severity_level" ->
            SeverityOrder(ev.severity)
                >= SeverityOrder(DictGet(c, "min_severity", "low"))
      [] rule.trigger_type = "confidence_threshold" ->
            ev.confidence >= DictGet(c, "min_confidence", 5)
      [] rule.trigger_type = "camera" ->
            ev.camera_id \in DictGet(c, "camera_ids", {})
      [] rule.trigger_type = "zone" ->
            ev.zone_id \in DictGet(c, "zone_ids", {})
      [] rule.trigger_type = "time_window" ->
            LET ws == DictGet(c, "time_windows", <<>>) IN
            \E i \in 1..Len(ws) :
                /\ {"start", "end"} \subseteq DOMAIN ws[i]
                /\ ws[i].start <= HourOf(ep, t)
                /\ HourOf(ep, t) <= ws[i].end
      [] OTHER -> TRUE

\* should_trigger_alert with the condition dispatch placed before the gate
ShouldTriggerAlertUngated(rule, ev, ep, t) ==
    ConditionMatches(rule, ev, ep, t)

\* the value returned by should_trigger_alert (when it does not raise)
ShouldTriggerAlert(rule, ev, ep, t) ==
    IF InCooldown(rule, t) THEN FALSE ELSE ConditionMatches(rule, ev, ep, t)

---------------------------------------------------------------------------
(* Alert Factory: alerts/utils.py determine_alert_priority *)

DetermineAlertPriority(ev) ==
    IF ev.severity = "critical" THEN "critical"
    ELSE IF ev.severity = "high" THEN "high"
    ELSE IF ev.severity = "medium" THEN "medium"
    ELSE "low"

---------------------------------------------------------------------------
(* Recipient Resolver: alerts/utils.py is_within_time_restrictions *)

EmptyDict == <<>>
\* a start_time / end_time string that time.fromisoformat cannot parse
BadTime == -2

\* TRUE when is_within_time_restrictions raises (ValueError of fromisoformat)
TimeRestrictionsRaise(tr, ep, t) ==
    /\ DOMAIN tr # {}
    /\ ~("allowed_days" \in DOMAIN tr /\ tr.allowed_days # {}
          /\ WeekdayOf(ep, t) \notin tr.allowed_days)
    /\ {"start_time", "end_time"} \subseteq DOMAIN tr
    /\ (tr.start_time = BadTime \/ tr.end_time = BadTime)

\* the window that spans midnight read as an intersection
IsWithinTimeRestrictionsNoWrap(tr, ep, t) ==
    IF DOMAIN tr = {} THEN TRUE
    ELSE IF "allowed_days" \in DOMAIN tr /\ tr.allowed_days # {}
            /\ WeekdayOf(ep, t) \notin tr.allowed_days
         THEN FALSE
    ELSE IF {"start_time", "end_time"} \subseteq DOMAIN tr
         THEN IF tr.start_time <= tr.end_time
              THEN tr.start_time <= MinuteOfDay(ep, t)
                   /\ MinuteOfDay(ep, t) <= tr.end_time
              ELSE MinuteOfDay(ep, t) >= tr.start_time
                   /\ MinuteOfDay(ep, t) <= tr.end_time
    ELSE TRUE

\* lines 403-433; the times are minutes of the day, the weekdays 0 (Monday)
\* to 6
IsWithinTimeRestrictions(tr, ep, t) ==
    IF DOMAIN tr = {} THEN TRUE
    ELSE IF "allowed_days" \in DOMAIN tr /\ tr.allowed_days # {}
            /\ WeekdayOf(ep, t) \notin tr.allowed_days
         THEN FALSE
    ELSE IF {"start_time", "end_time"} \subseteq DOMAIN tr
         THEN IF tr.start_time <= tr.end_time
              THEN tr.start_time <= MinuteOfDay(ep, t)
                   /\ MinuteOfDay(ep, t) <= tr.end_time
              ELSE MinuteOfDay(ep, t) >= tr.start_time
                   \/ MinuteOfDay(ep, t) <= tr.end_time
    ELSE TRUE

---------------------------------------------------------------------------
(* State *)

VARIABLES
    now,         \* minutes elapsed (timezone.now())
    epoch,       \* minute of the week at which the run started
    rules,       \* table AlertRule: RuleIds -> row
    events,      \* table DetectionEvent: EventIds -> row
    recipients,  \* table AlertRecipient: RecipientIds -> row
    channels,    \* table NotificationChannel: ChannelIds -> row
    alerts,      \* table Alert: sequence of rows, id = index
    logs,        \* table NotificationLog: sequence of rows
    published,   \* messages handed to the channel layer (group_send)
    proc,        \* Procs -> state of a process_detection call; eval is the
                 \* last should_trigger_alert call: its rule, time and result;
                 \* evaluated counts the rules handed to should_trigger_alert
                 \* and failed holds the positions of the rules whose alert
                 \* creation failed (history of the call); pairs, k and log
                 \* are the position of a fan-out followed pair by pair,
                 \* filtered and at the recipients it retained and when
    calls,       \* number of process_detection calls started
    req,         \* Reqs -> state of an acknowledge / resolve request
    nreq,        \* number of acknowledge / resolve / verify requests started
    tog,         \* state of a toggle_rule request
    ntog,        \* number of toggle_rule requests started
    statusLog,   \* per alert, the writes of its row (history): the
                 \* operation, the status it had read and the one it wrote
    client       \* state of an AlertConsumer connection: position in
                 \* connect, location of its group, the messages the channel
                 \* layer had taken before it joined, and its snapshot

vars == <<now, epoch, rules, events, recipients, channels, alerts, logs,
          published, proc, calls, req, nreq, tog, ntog, statusLog, client>>

dbVars == <<rules, events, recipients, channels, alerts, logs, statusLog>>

IdleProc ==
    [pc |-> "idle", event |-> 0, rs |-> <<>>, idx |-> 0, alert |-> 0,
     call |-> 0, created |-> {}, outcome |-> "none",
     eval |-> [idx |-> 0, rule |-> <<>>, at |-> NULL, result |-> FALSE],
     evaluated |-> 0, failed |-> {},
     pairs |-> <<>>, k |-> 0, log |-> 0, filtered |-> {}, at |-> NULL]

IdleReq ==
    [pc |-> "idle", kind |-> "none", user |-> NoUser, notes |-> "",
     id |-> 0, obj |-> <<>>, loaded |-> "none"]

IdleTog == [pc |-> "idle", id |-> 0, obj |-> <<>>]

ClosedClient == [pc |-> "closed", location |-> 0, before |-> {},
                 snapshot |-> {}]

---------------------------------------------------------------------------
(* Initial database *)

Rule(loc, tt, cond, prio, cd) ==
    [location |-> loc, trigger_type |-> tt, trigger_conditions |-> cond,
     is_active |-> TRUE, priority |-> prio, cooldown_minutes |-> cd,
     last_triggered |-> NULL]

Event(cam, zone, loc, et, sev, conf) ==
    [camera_id |-> cam, zone_id |-> zone, location |-> loc,
     event_type |-> et, severity |-> sev, confidence |-> conf,
     is_verified |-> FALSE, verified_by |-> NoUser, verified_at |-> NULL,
     false_positive |-> FALSE]

Recipient(u, loc, chs, pf, tr) ==
    [user |-> u, location |-> loc, channels |-> chs, is_active |-> TRUE,
     priority_filter |-> pf, time_restrictions |-> tr]

Channel(ct, conf) ==
    [channel_type |-> ct, configuration |-> conf, is_active |-> TRUE,
     last_used |-> NULL]

\* Monday 12:00
Noon == 720

InitRules ==
    (1 :> Rule(1, "detection_type",
               [event_types |-> {"theft", "intrusion"}], 1, 2)
     @@ 2 :> Rule(1, "severity_level", [min_severity |-> "low"], 2, 0))

InitEvents ==
    (1 :> Event(1, 1, 1, "theft", "critical", 9)
     @@ 2 :> Event(2, 2, 1, "intrusion", "low", 3))

\* recipient 2 only takes critical alerts and holds an unparsable start_time;
\* recipient 3 is inactive and recipient 4 belongs to another location
InitRecipients ==
    (1 :> Recipient(1, 1, {1}, {}, EmptyDict)
     @@ 2 :> Recipient(2, 1, {1, 2}, {"critical"},
                       [start_time |-> BadTime, end_time |-> 360])
     @@ 3 :> [Recipient(3, 1, {1}, {}, EmptyDict) EXCEPT !.is_active = FALSE]
     @@ 4 :> Recipient(4, 2, {1}, {}, EmptyDict))

\* channel 3 is a webhook without URL and channel 4 is inactive
InitChannels ==
    (1 :> Channel("push", EmptyDict)
     @@ 2 :> Channel("webhook", [webhook_url |-> "u"])
     @@ 3 :> Channel("webhook", EmptyDict)
     @@ 4 :> [Channel("email", EmptyDict) EXCEPT !.is_active = FALSE])

InitRest ==
    /\ now = 0
    /\ alerts = <<>>
    /\ logs = <<>>
    /\ published = {}
    /\ proc = [p \in Procs |-> IdleProc]
    /\ calls = 0
    /\ req = [q \in Reqs |-> IdleReq]
    /\ nreq = 0
    /\ tog = IdleTog
    /\ ntog = 0
    /\ statusLog = <<>>
    /\ client = ClosedClient

Init ==
    /\ epoch = Noon
    /\ rules = InitRules
    /\ events = InitEvents
    /\ recipients = InitRecipients
    /\ channels = InitChannels
    /\ InitRest

---------------------------------------------------------------------------
(* process_detection: alerts/utils.py lines 15-43 *)

\* Meta.ordering of AlertRule: priority, then most recently created first
RuleBefore(a, b) ==
    \/ rules[a].priority < rules[b].priority
    \/ rules[a].priority = rules[b].priority /\ a > b

RECURSIVE OrderRules(_)
OrderRules(S) ==
    IF S = {} THEN <<>>
    ELSE LET f == CHOOSE a \in S : \A b \in S \ {a} : RuleBefore(a, b)
         IN <<f>> \o OrderRules(S \ {f})

\* AlertRule.objects.filter(location=..., is_active=True): in-memory copies
ApplicableRules(loc) ==
    LET ids == OrderRules({r \in RuleIds : rules[r].location = loc
                                           /\ rules[r].is_active})
    IN [i \in 1..Len(ids) |-> [id |-> ids[i], row |-> rules[ids[i]]]]

\* next iteration of the for loop, or the return at its end
NextRule(pr) ==
    IF pr.idx + 1 > Len(pr.rs)
    THEN [pr EXCEPT !.pc = "idle", !.idx = 0, !.rs = <<>>, !.alert = 0,
                    !.pairs = <<>>, !.k = 0, !.log = 0, !.filtered = {},
                    !.at = NULL,
                    !.outcome = "returned"]
    ELSE [pr EXCEPT !.pc = "loop", !.idx = pr.idx + 1, !.alert = 0,
                    !.pairs = <<>>, !.k = 0, !.log = 0, !.filtered = {},
                    !.at = NULL]

\* an exception leaves process_detection
Abort(pr) ==
    [pr EXCEPT !.pc = "idle", !.idx = 0, !.rs = <<>>, !.alert = 0,
               !.pairs = <<>>, !.k = 0, !.log = 0, !.filtered = {},
                    !.at = NULL,
               !.outcome = "raised"]

Start(p, e) ==
    /\ proc[p].pc = "idle"
    /\ calls < MaxCalls
    /\ calls' = calls + 1
    /\ LET rs == ApplicableRules(events[e].location)
           pr == [IdleProc EXCEPT !.event = e, !.rs = rs, !.call = calls + 1]
       IN proc' = [proc EXCEPT ![p] = NextRule(pr)]
    /\ UNCHANGED <<now, epoch, dbVars, published, req, nreq, tog, ntog,
                   client>>

\* line 30: should_trigger_alert(rule, detection_event)
Evaluate(p) ==
    /\ proc[p].pc = "loop"
    /\ LET pr == proc[p]
           rule == pr.rs[pr.idx].row
           ev == events[pr.event]
       IN IF ShouldTriggerRaises(rule, ev, epoch, now)
          THEN proc' = [proc EXCEPT ![p] =
                           Abort([pr EXCEPT !.evaluated = pr.idx])]
          ELSE LET res == ShouldTriggerAlert(rule, ev, epoch, now)
                   pe == [pr EXCEPT !.eval = [idx |-> pr.idx, rule |-> rule,
                                              at |-> now, result |-> res],
                                    !.evaluated = pr.idx]
               IN proc' = [proc EXCEPT ![p] =
                              IF res THEN [pe EXCEPT !.pc = "create"]
                              ELSE NextRule(pe)]
    /\ UNCHANGED <<now, epoch, dbVars, published, calls, req, nreq, tog, ntog,
                   client>>

\* Alert.objects.create handed the rule's first event instead of this one
NewAlertWrongEvent(rid, eid, call, t) ==
    [alert_rule |-> rid, detection_event |-> 1, call |-> call,
     priority |-> DetermineAlertPriority(events[eid]),
     status |-> "pending", created_at |-> t, sent_at |-> NULL,
     acknowledged_at |-> NULL, acknowledged_by |-> NoUser,
     resolved_at |-> NULL, resolved_by |-> NoUser,
     metadata |-> [camera_id |-> events[eid].camera_id,
                   zone_id |-> events[eid].zone_id,
                   confidence |-> events[eid].confidence,
                   severity |-> events[eid].severity]]

\* lines 98-112: the row written by Alert.objects.create
NewAlert(rid, eid, call, t) ==
    [alert_rule |-> rid, detection_event |-> eid, call |-> call,
     priority |-> DetermineAlertPriority(events[eid]),
     status |-> "pending", created_at |-> t, sent_at |-> NULL,
     acknowledged_at |-> NULL, acknowledged_by |-> NoUser,
     resolved_at |-> NULL, resolved_by |-> NoUser,
     metadata |-> [camera_id |-> events[eid].camera_id,
                   zone_id |-> events[eid].zone_id,
                   confidence |-> events[eid].confidence,
                   severity |-> events[eid].severity]]

\* create_alert_from_rule letting its exception reach process_detection
CreateAlertFromRuleUncaught(p, ok) ==
    /\ proc[p].pc = "create"
    /\ LET pr == proc[p] IN
       IF ok
       THEN /\ Len(alerts) < MaxAlerts
            /\ alerts' = Append(alerts, NewAlert(pr.rs[pr.idx].id, pr.event,
                                                 pr.call, now))
            /\ statusLog' = Append(statusLog,
                    <<[op |-> "create", from |-> "none", to |-> "pending"]>>)
            /\ proc' = [proc EXCEPT ![p] =
                          [pr EXCEPT !.pc = "notify",
                                     !.alert = Len(alerts) + 1,
                                     !.created = @ \cup {Len(alerts) + 1}]]
       ELSE /\ proc' = [proc EXCEPT ![p] =
                          Abort([pr EXCEPT !.failed = @ \cup {pr.idx}])]
            /\ UNCHANGED <<alerts, statusLog>>
    /\ UNCHANGED <<now, epoch, rules, events, recipients, channels, logs,
                   published, calls, req, nreq, tog, ntog,
                   client>>

\* line 31: create_alert_from_rule; ok = FALSE is an exception inside it,
\* which it catches to return None
CreateAlertFromRule(p, ok) ==
    /\ proc[p].pc = "create"
    /\ LET pr == proc[p] IN
       IF ok
       THEN /\ Len(alerts) < MaxAlerts
            /\ alerts' = Append(alerts, NewAlert(pr.rs[pr.idx].id, pr.event,
                                                 pr.call, now))
            /\ statusLog' = Append(statusLog,
                    <<[op |-> "create", from |-> "none", to |-> "pending"]>>)
            /\ proc' = [proc EXCEPT ![p] =
                          [pr EXCEPT !.pc = "notify",
                                     !.alert = Len(alerts) + 1,
                                     !.created = @ \cup {Len(alerts) + 1}]]
       ELSE /\ proc' = [proc EXCEPT ![p] =
                          NextRule([pr EXCEPT !.failed = @ \cup {pr.idx}])]
            /\ UNCHANGED <<alerts, statusLog>>
    /\ UNCHANGED <<now, epoch, rules, events, recipients, channels, logs,
                   published, calls, req, nreq, tog, ntog,
                   client>>

---------------------------------------------------------------------------
(* Notification fan-out: alerts/utils.py send_alert_notifications *)

\* outcomes of a channel transport: an HTTP status, or Raised for an
\* exception (timeout, connection error, mail transport error)
Raised == 0

TransportOutcomes == {200, 500}

\* with exceptions and a response that is neither 2xx nor an error status
AllTransportOutcomes == {Raised, 200, 302, 500}

\* the priority filter letting every alert through
PassesPriorityFilterAlways(rc, a) ==
    rc.priority_filter = {} \/ a.priority \in Severities

\* lines 152-153: the priority filter of one recipient
PassesPriorityFilter(rc, a) ==
    rc.priority_filter = {} \/ a.priority \in rc.priority_filter

\* lines 144-147: active recipients of the alert's location
CandidateRecipients(a) ==
    {r \in RecipientIds :
        /\ recipients[r].location = events[a.detection_event].location
        /\ recipients[r].is_active}

\* lines 150-156 raise when a recipient that passes the priority filter
\* holds time restrictions that cannot be evaluated
ResolutionRaises(a, ep, t) ==
    \E r \in CandidateRecipients(a) :
        /\ PassesPriorityFilter(recipients[r], a)
        /\ TimeRestrictionsRaise(recipients[r].time_restrictions, ep, t)

FilteredRecipients(a, ep, t) ==
    {r \in CandidateRecipients(a) :
        /\ PassesPriorityFilter(recipients[r], a)
        /\ IsWithinTimeRestrictions(recipients[r].time_restrictions, ep, t)}

\* lines 159-161: the (recipient, channel) pairs in dispatch order
DispatchPairs(a, ep, t) ==
    LET rs == SetToSeq(FilteredRecipients(a, ep, t))
        chs(r) == SetToSeq({c \in recipients[r].channels :
                               channels[c].is_active})
    IN Flatten([i \in 1..Len(rs) |->
                  [j \in 1..Len(chs(rs[i])) |->
                      [recipient |-> rs[i], channel |-> chs(rs[i])[j]]]])

\* TRUE when the adapter of the channel type reaches its transport
\* (send_mail, requests.post); the sms and push adapters are simulations
UsesTransport(ch) ==
    \/ ch.channel_type = "email"
    \/ ch.channel_type = "webhook" /\ "webhook_url" \in DOMAIN ch.configuration

\* the value returned by the send_*_notification adapter of the channel type:
\* send_mail returns unless it raises, the webhook adapter returns
\* response.status_code < 400 (line 323)
AdapterSuccess(ch, outcome) ==
    CASE ch.channel_type = "email" -> outcome # Raised
      [] ch.channel_type = "sms" -> "phone_number" \in DOMAIN ch.configuration
      [] ch.channel_type = "webhook" ->
            /\ "webhook_url" \in DOMAIN ch.configuration
            /\ outcome # Raised
            /\ outcome < 400
      [] ch.channel_type = "push" -> TRUE
      [] OTHER -> FALSE

\* lines 173-178: the NotificationLog row as created.  attempts (the number
\* of adapter invocations) and raised (the transport raised) are history
PendingLog(aid, pair) ==
    [alert |-> aid, channel |-> pair.channel,
     recipient |-> recipients[pair.recipient].user,
     status |-> "pending", sent_at |-> NULL, error_message |-> "",
     retry_count |-> 0, metadata |-> EmptyDict,
     attempts |-> 0, raised |-> FALSE]

\* the dispatcher leaving sent_at unset on success
FinishedLogNoSentAt(row, ch, outcome, t) ==
    LET success == AdapterSuccess(ch, outcome) IN
    [row EXCEPT
       !.status = IF success THEN "sent" ELSE "failed",
       !.sent_at = NULL,
       !.error_message = IF success THEN "" ELSE "Erreur d'envoi",
       !.metadata = IF ch.channel_type = "webhook" /\ UsesTransport(ch)
                       /\ outcome # Raised
                    THEN [status_code |-> outcome] ELSE @,
       !.attempts = @ + 1,
       !.raised = UsesTransport(ch) /\ outcome = Raised]

\* lines 180-202: the row once the adapter has run and the log is saved; the
\* webhook adapter stores the response status in metadata (lines 318-321)
FinishedLog(row, ch, outcome, t) ==
    LET success == AdapterSuccess(ch, outcome) IN
    [row EXCEPT
       !.status = IF success THEN "sent" ELSE "failed",
       !.sent_at = IF success THEN t ELSE @,
       !.error_message = IF success THEN "" ELSE "Erreur d'envoi",
       !.metadata = IF ch.channel_type = "webhook" /\ UsesTransport(ch)
                       /\ outcome # Raised
                    THEN [status_code |-> outcome] ELSE @,
       !.attempts = @ + 1,
       !.raised = UsesTransport(ch) /\ outcome = Raised]

\* lines 173-202: the NotificationLog row once send_notification_via_channel
\* has returned
DispatchLog(aid, pair, outcome, t) ==
    FinishedLog(PendingLog(aid, pair), channels[pair.channel], outcome, t)

\* messages of send_realtime_alert; n = number of group_send calls that
\* succeeded before the channel layer failed (2 = both)
RealtimeMessages(aid, n) ==
    LET loc == events[alerts[aid].detection_event].location IN
    (IF n >= 1
     THEN {[group |-> "alerts", location |-> loc, type |-> "new_alert",
            alert |-> aid]}
     ELSE {})
    \cup
    (IF n >= 2
     THEN {[group |-> "dashboard", location |-> 0,
            type |-> "dashboard_update", alert |-> aid]}
     ELSE {})

\* send_realtime_alert letting the failure of the channel layer reach
\* process_detection
SendAlertNotificationsBroadcastRaises(p, oc, n) ==
    /\ proc[p].pc = "notify"
    /\ LET pr == proc[p]
           aid == pr.alert
           a == alerts[aid]
       IN IF ResolutionRaises(a, epoch, now)
          THEN /\ oc = <<>>
               /\ proc' = [proc EXCEPT ![p] = Abort(pr)]
               /\ UNCHANGED <<logs, channels, published>>
          ELSE LET pairs == DispatchPairs(a, epoch, now)
                   ok(i) == AdapterSuccess(channels[pairs[i].channel], oc[i])
               IN /\ DOMAIN oc = 1..Len(pairs)
                  /\ logs' = logs \o [i \in 1..Len(pairs) |->
                                 DispatchLog(aid, pairs[i], oc[i], now)]
                  /\ channels' = [c \in ChannelIds |->
                        IF \E i \in 1..Len(pairs) :
                              pairs[i].channel = c /\ ok(i)
                        THEN [channels[c] EXCEPT !.last_used = now]
                        ELSE channels[c]]
                  /\ published' = published \cup RealtimeMessages(aid, n)
                  /\ proc' = [proc EXCEPT ![p] =
                                IF n < 2 THEN Abort(pr)
                                ELSE [pr EXCEPT !.pc = "stamp"]]
    /\ UNCHANGED <<now, epoch, rules, events, recipients, alerts, statusLog,
                   calls, req, nreq, tog, ntog,
                   client>>

\* line 36: send_alert_notifications(alert)
SendAlertNotifications(p, oc, n) ==
    /\ proc[p].pc = "notify"
    /\ LET pr == proc[p]
           aid == pr.alert
           a == alerts[aid]
       IN IF ResolutionRaises(a, epoch, now)
          THEN /\ oc = <<>>
               /\ proc' = [proc EXCEPT ![p] = Abort(pr)]
               /\ UNCHANGED <<logs, channels, published>>
          ELSE LET pairs == DispatchPairs(a, epoch, now)
                   ok(i) == AdapterSuccess(channels[pairs[i].channel], oc[i])
               IN /\ DOMAIN oc = 1..Len(pairs)
                  /\ logs' = logs \o [i \in 1..Len(pairs) |->
                                 DispatchLog(aid, pairs[i], oc[i], now)]
                  /\ channels' = [c \in ChannelIds |->
                        IF \E i \in 1..Len(pairs) :
                              pairs[i].channel = c /\ ok(i)
                        THEN [channels[c] EXCEPT !.last_used = now]
                        ELSE channels[c]]
                  /\ published' = published \cup RealtimeMessages(aid, n)
                  /\ proc' = [proc EXCEPT ![p] = [pr EXCEPT !.pc = "stamp"]]
    /\ UNCHANGED <<now, epoch, rules, events, recipients, alerts, statusLog,
                   calls, req, nreq, tog, ntog,
                   client>>

---------------------------------------------------------------------------
(* The fan-out followed pair by pair, for what can be observed while it runs *)

\* lines 144-156: the recipients of the alert are resolved
ResolveRecipients(p) ==
    /\ proc[p].pc = "notify"
    /\ LET pr == proc[p]
           a == alerts[pr.alert]
           pairs == DispatchPairs(a, epoch, now)
       IN IF ResolutionRaises(a, epoch, now)
          THEN proc' = [proc EXCEPT ![p] = Abort(pr)]
          ELSE proc' = [proc EXCEPT ![p] =
                  [pr EXCEPT !.pc = IF pairs = <<>> THEN "broadcast"
                                    ELSE "dispatch",
                             !.pairs = pairs,
                             !.k = 1,
                             !.filtered = FilteredRecipients(a, epoch, now),
                             !.at = now]]
    /\ UNCHANGED <<now, epoch, dbVars, published, calls, req, nreq, tog, ntog,
                   client>>

\* lines 173-178: NotificationLog.objects.create(..., status='pending')
CreateLog(p) ==
    /\ proc[p].pc = "dispatch"
    /\ logs' = Append(logs, PendingLog(proc[p].alert, proc[p].pairs[proc[p].k]))
    /\ proc' = [proc EXCEPT ![p].pc = "adapter", ![p].log = Len(logs) + 1]
    /\ UNCHANGED <<now, epoch, rules, events, recipients, channels, alerts,
                   statusLog, published, calls, req, nreq, tog, ntog,
                   client>>

\* the dispatcher giving up on the remaining pairs after a failure
FinishDispatchStopOnFailure(p, outcome) ==
    /\ proc[p].pc = "adapter"
    /\ LET pr == proc[p]
           c == pr.pairs[pr.k].channel
           success == AdapterSuccess(channels[c], outcome)
       IN /\ logs' = [logs EXCEPT ![pr.log] =
                         FinishedLog(@, channels[c], outcome, now)]
          /\ channels' = IF success
                         THEN [channels EXCEPT ![c].last_used = now]
                         ELSE channels
          /\ proc' = [proc EXCEPT ![p] =
                  [pr EXCEPT !.pc = IF pr.k < Len(pr.pairs) /\ success
                                    THEN "dispatch" ELSE "broadcast",
                             !.k = pr.k + 1,
                             !.log = 0]]
    /\ UNCHANGED <<now, epoch, rules, events, recipients, alerts, statusLog,
                   published, calls, req, nreq, tog, ntog,
                   client>>

\* the dispatcher invoking the adapter a second time after a failure
FinishDispatchRetrying(p, outcome) ==
    /\ proc[p].pc = "adapter"
    /\ LET pr == proc[p]
           c == pr.pairs[pr.k].channel
           success == AdapterSuccess(channels[c], outcome)
           again == ~success /\ logs[pr.log].attempts = 0
       IN /\ logs' = [logs EXCEPT ![pr.log] =
                         FinishedLog(@, channels[c], outcome, now)]
          /\ channels' = IF success
                         THEN [channels EXCEPT ![c].last_used = now]
                         ELSE channels
          /\ proc' = [proc EXCEPT ![p] =
                  IF again THEN pr
                  ELSE [pr EXCEPT !.pc = IF pr.k < Len(pr.pairs)
                                         THEN "dispatch" ELSE "broadcast",
                                  !.k = pr.k + 1,
                                  !.log = 0]]
    /\ UNCHANGED <<now, epoch, rules, events, recipients, alerts, statusLog,
                   published, calls, req, nreq, tog, ntog,
                   client>>

\* a dispatch that also writes its outcome to the alert
FinishDispatchMarksAlert(p, outcome) ==
    /\ proc[p].pc = "adapter"
    /\ LET pr == proc[p]
           c == pr.pairs[pr.k].channel
           success == AdapterSuccess(channels[c], outcome)
       IN /\ logs' = [logs EXCEPT ![pr.log] =
                         FinishedLog(@, channels[c], outcome, now)]
          /\ alerts' = [alerts EXCEPT
                          ![pr.alert].status =
                              IF success THEN "sent" ELSE "failed",
                          ![pr.alert].sent_at = IF success THEN now ELSE @]
          /\ channels' = IF success
                         THEN [channels EXCEPT ![c].last_used = now]
                         ELSE channels
          /\ proc' = [proc EXCEPT ![p] =
                  [pr EXCEPT !.pc = IF pr.k < Len(pr.pairs)
                                    THEN "dispatch" ELSE "broadcast",
                             !.k = pr.k + 1,
                             !.log = 0]]
    /\ UNCHANGED <<now, epoch, rules, events, recipients, statusLog,
                   published, calls, req, nreq, tog, ntog,
                   client>>

\* lines 180-202: the adapter of the channel type runs, then the outcome is
\* written to the log (and to the channel on success); the next pair follows
\* whatever the outcome
FinishDispatch(p, outcome) ==
    /\ proc[p].pc = "adapter"
    /\ LET pr == proc[p]
           c == pr.pairs[pr.k].channel
           success == AdapterSuccess(channels[c], outcome)
       IN /\ logs' = [logs EXCEPT ![pr.log] =
                         FinishedLog(@, channels[c], outcome, now)]
          /\ channels' = IF success
                         THEN [channels EXCEPT ![c].last_used = now]
                         ELSE channels
          /\ proc' = [proc EXCEPT ![p] =
                  [pr EXCEPT !.pc = IF pr.k < Len(pr.pairs)
                                    THEN "dispatch" ELSE "broadcast",
                             !.k = pr.k + 1,
                             !.log = 0]]
    /\ UNCHANGED <<now, epoch, rules, events, recipients, alerts, statusLog,
                   published, calls, req, nreq, tog, ntog,
                   client>>

\* line 164: send_realtime_alert(alert)
SendRealtimeAlert(p, n) ==
    /\ proc[p].pc = "broadcast"
    /\ published' = published \cup RealtimeMessages(proc[p].alert, n)
    /\ proc' = [proc EXCEPT ![p].pc = "stamp"]
    /\ UNCHANGED <<now, epoch, dbVars, calls, req, nreq, tog, ntog,
                   client>>

---------------------------------------------------------------------------
(* process_detection, end of the loop body *)

\* line 39: rule.last_triggered = timezone.now()
StampRule(p) ==
    /\ proc[p].pc = "stamp"
    /\ proc' = [proc EXCEPT ![p].rs[proc[p].idx].row.last_triggered = now,
                            ![p].pc = "save"]
    /\ UNCHANGED <<now, epoch, dbVars, published, calls, req, nreq, tog, ntog,
                   client>>

\* line 40: rule.save() writes every field of the in-memory rule
SaveRule(p) ==
    /\ proc[p].pc = "save"
    /\ LET pr == proc[p] IN
       /\ rules' = [rules EXCEPT ![pr.rs[pr.idx].id] = pr.rs[pr.idx].row]
       /\ proc' = [proc EXCEPT ![p] = NextRule(pr)]
    /\ UNCHANGED <<now, epoch, events, recipients, channels, alerts, logs,
                   statusLog, published, calls, req, nreq, tog, ntog,
                   client>>

\* the clock advances by one minute
Tick ==
    /\ now < MaxTime
    /\ now' = now + 1
    /\ UNCHANGED <<epoch, dbVars, published, proc, calls, req, nreq, tog, ntog,
                   client>>

---------------------------------------------------------------------------
(* Human actions: alerts/views.py acknowledge_alert, resolve_alert *)

\* a new request is served by the first idle handler
FreeHandler(q) ==
    /\ req[q].pc = "idle"
    /\ \A q2 \in Reqs : q2 < q => req[q2].pc # "idle"

\* get_object_or_404(Alert, id=alert_id): the request holds a copy of the row
LoadAlert(q, kind, id, user, notes) ==
    /\ FreeHandler(q)
    /\ nreq < MaxRequests
    /\ id \in 1..Len(alerts)
    /\ nreq' = nreq + 1
    /\ req' = [req EXCEPT ![q] =
                  [pc |-> "loaded", kind |-> kind, user |-> user,
                   notes |-> notes, id |-> id, obj |-> alerts[id],
                   loaded |-> alerts[id].status]]
    /\ UNCHANGED <<now, epoch, dbVars, published, proc, calls, tog, ntog,
                   client>>

\* views.py lines 141-144: the status check and the in-memory assignments
AcknowledgeStamp(q) ==
    /\ req[q].pc = "loaded"
    /\ req[q].kind = "acknowledge"
    /\ IF req[q].obj.status \in {"pending", "sent"}
       THEN req' = [req EXCEPT ![q].pc = "stamped",
                               ![q].obj.status = "acknowledged",
                               ![q].obj.acknowledged_at = now,
                               ![q].obj.acknowledged_by = req[q].user]
       ELSE req' = [req EXCEPT ![q] = IdleReq]
    /\ UNCHANGED <<now, epoch, dbVars, published, proc, calls, nreq, tog, ntog,
                   client>>

\* resolve_alert stamping resolved_at with the alert's creation time
ResolveStampBackdated(q) ==
    /\ req[q].pc = "loaded"
    /\ req[q].kind = "resolve"
    /\ req' = [req EXCEPT ![q].pc = "stamped",
                          ![q].obj.status = "resolved",
                          ![q].obj.resolved_at = req[q].obj.created_at,
                          ![q].obj.resolved_by = req[q].user,
                          ![q].obj.metadata =
                              IF req[q].notes # ""
                              THEN [resolution_notes |-> req[q].notes] @@ @
                              ELSE @]
    /\ UNCHANGED <<now, epoch, dbVars, published, proc, calls, nreq, tog, ntog,
                   client>>

\* resolve_alert replacing the metadata by the resolution notes
ResolveStampDropsMetadata(q) ==
    /\ req[q].pc = "loaded"
    /\ req[q].kind = "resolve"
    /\ req' = [req EXCEPT ![q].pc = "stamped",
                          ![q].obj.status = "resolved",
                          ![q].obj.resolved_at = now,
                          ![q].obj.resolved_by = req[q].user,
                          ![q].obj.metadata =
                              IF req[q].notes # ""
                              THEN [resolution_notes |-> req[q].notes]
                              ELSE @]
    /\ UNCHANGED <<now, epoch, dbVars, published, proc, calls, nreq, tog, ntog,
                   client>>

\* views.py lines 165-172: the in-memory assignments of resolve_alert
ResolveStamp(q) ==
    /\ req[q].pc = "loaded"
    /\ req[q].kind = "resolve"
    /\ req' = [req EXCEPT ![q].pc = "stamped",
                          ![q].obj.status = "resolved",
                          ![q].obj.resolved_at = now,
                          ![q].obj.resolved_by = req[q].user,
                          ![q].obj.metadata =
                              IF req[q].notes # ""
                              THEN [resolution_notes |-> req[q].notes] @@ @
                              ELSE @]
    /\ UNCHANGED <<now, epoch, dbVars, published, proc, calls, nreq, tog, ntog,
                   client>>

\* views.py lines 145 and 174: alert.save() writes every field of the copy
SaveAlert(q) ==
    /\ req[q].pc = "stamped"
    /\ alerts' = [alerts EXCEPT ![req[q].id] = req[q].obj]
    /\ statusLog' = [statusLog EXCEPT ![req[q].id] =
                        Append(@, [op |-> req[q].kind, from |-> req[q].loaded,
                                   to |-> req[q].obj.status])]
    /\ req' = [req EXCEPT ![q] = IdleReq]
    /\ UNCHANGED <<now, epoch, rules, events, recipients, channels, logs,
                   published, proc, calls, nreq, tog, ntog,
                   client>>

\* alerts/consumers.py AlertConsumer.acknowledge_alert / resolve_alert:
\* scope['user'] is a user object without .get, and the module never imports
\* timezone, so the handler raises inside its try block before alert.save()
\* and answers with an error; the row is not written.  kind records the last
\* handler that ran
WsHandler(q, kind) ==
    /\ FreeHandler(q)
    /\ nreq < MaxRequests
    /\ nreq' = nreq + 1
    /\ req' = [req EXCEPT ![q] = [IdleReq EXCEPT !.kind = kind]]
    /\ UNCHANGED <<now, epoch, dbVars, published, proc, calls, tog, ntog,
                   client>>

WsAcknowledgeAlert(q) == WsHandler(q, "ws_acknowledge")

WsResolveAlert(q) == WsHandler(q, "ws_resolve")

---------------------------------------------------------------------------
(* alerts/consumers.py AlertConsumer.connect *)

LocationIds == {1, 2}
RecentWindow == 1440
RecentLimit == 50

\* lines 21-24: channel_layer.group_add; from now on the messages sent to the
\* group alerts_<location> reach the consumer
GroupAdd(loc) ==
    /\ client.pc = "closed"
    /\ client' = [client EXCEPT !.pc = "joined", !.location = loc,
                                !.before = published]
    /\ UNCHANGED <<now, epoch, dbVars, published, proc, calls, req, nreq, tog,
                   ntog>>

\* line 26: self.accept()
Accept ==
    /\ client.pc = "joined"
    /\ client' = [client EXCEPT !.pc = "accepted"]
    /\ UNCHANGED <<now, epoch, dbVars, published, proc, calls, req, nreq, tog,
                   ntog>>

\* lines 37-53: the alerts of the location created in the last 24 hours with
\* status pending, sent or acknowledged, the 50 newest
GetRecentAlerts(loc) ==
    LET recent == {a \in 1..Len(alerts) :
                     /\ events[alerts[a].detection_event].location = loc
                     /\ alerts[a].created_at >= now - RecentWindow
                     /\ alerts[a].status
                           \in {"pending", "sent", "acknowledged"}}
        Newer(a) == {b \in recent :
                       \/ alerts[b].created_at > alerts[a].created_at
                       \/ alerts[b].created_at = alerts[a].created_at /\ b > a}
    IN {a \in recent : Cardinality(Newer(a)) < RecentLimit}

\* lines 83-89: send_recent_alerts, the last statement of connect
SendRecentAlerts ==
    /\ client.pc = "accepted"
    /\ client' = [client EXCEPT !.pc = "open",
                                !.snapshot = GetRecentAlerts(client.location)]
    /\ UNCHANGED <<now, epoch, dbVars, published, proc, calls, req, nreq, tog,
                   ntog>>

\* the alerts forwarded to the client by the new_alert handler: those of the
\* messages sent to its group since it joined
NewAlertsReceived ==
    {m.alert : m \in {x \in published \ client.before :
                         /\ x.group = "alerts"
                         /\ x.type = "new_alert"
                         /\ x.location = client.location}}

---------------------------------------------------------------------------
(* monitoring/views.py verify_detection *)

\* lines 298-308: the detection is marked verified, valid or false positive
VerifyDetection(e, user, valid) ==
    /\ nreq < MaxRequests
    /\ nreq' = nreq + 1
    /\ events' = [events EXCEPT ![e].is_verified = TRUE,
                                ![e].verified_by = user,
                                ![e].verified_at = now,
                                ![e].false_positive = ~valid]
    /\ UNCHANGED <<now, epoch, rules, recipients, channels, alerts, logs,
                   statusLog, published, proc, calls, req, tog, ntog,
                   client>>

---------------------------------------------------------------------------
(* alerts/views.py toggle_rule *)

\* line 271: get_object_or_404(AlertRule, id=rule_id)
ToggleLoad(r) ==
    /\ tog.pc = "idle"
    /\ ntog < MaxToggles
    /\ ntog' = ntog + 1
    /\ tog' = [pc |-> "loaded", id |-> r, obj |-> rules[r]]
    /\ UNCHANGED <<now, epoch, dbVars, published, proc, calls, req, nreq,
                   client>>

\* lines 273-274: flip is_active and save every field of the copy
ToggleSave ==
    /\ tog.pc = "loaded"
    /\ rules' = [rules EXCEPT ![tog.id] =
                    [tog.obj EXCEPT !.is_active = ~tog.obj.is_active]]
    /\ tog' = IdleTog
    /\ UNCHANGED <<now, epoch, events, recipients, channels, alerts, logs,
                   statusLog, published, proc, calls, req, nreq, ntog,
                   client>>

---------------------------------------------------------------------------
(* Specifications *)

MaxPairs == 3

\* the steps of a running process_detection call; N = the outcomes of the
\* channel layer that the environment can produce
ProcessDetectionStep(p, N) ==
    \/ Evaluate(p)
    \/ \E ok \in BOOLEAN : CreateAlertFromRule(p, ok)
    \/ \E k \in 0..MaxPairs : \E oc \in [1..k -> TransportOutcomes] :
          \E n \in N : SendAlertNotifications(p, oc, n)
    \/ StampRule(p)
    \/ SaveRule(p)

\* concurrent process_detection calls
Next ==
    \/ Tick
    \/ \E p \in Procs, e \in EventIds : Start(p, e)
    \/ \E p \in Procs : ProcessDetectionStep(p, {2})

Spec == Init /\ [][Next]_vars

\* process_detection calls that do not overlap
StartSeq(e) ==
    /\ \A p \in Procs : proc[p].pc = "idle"
    /\ Start(1, e)

NextSeq ==
    \/ Tick
    \/ \E e \in EventIds : StartSeq(e)
    \/ ProcessDetectionStep(1, {2})

SpecSeq == Init /\ [][NextSeq]_vars

\* a call that has started runs to its end: process_detection is a
\* synchronous function, each of its statements follows the previous one
SpecSeqFair == SpecSeq /\ WF_vars(ProcessDetectionStep(1, {2}))

\* the channel layer answers both group_send calls (2), fails at the second
\* (1) or is unavailable (0)
ChannelLayerOutcomes == 0..2

\* calls for the first event that do not overlap, with an alert creation
\* that succeeds and a channel layer that may fail
NextBroadcast ==
    \/ Tick
    \/ StartSeq(1)
    \/ Evaluate(1)
    \/ CreateAlertFromRule(1, TRUE)
    \/ \E k \in 0..MaxPairs : \E oc \in [1..k -> TransportOutcomes] :
          \E n \in ChannelLayerOutcomes : SendAlertNotifications(1, oc, n)
    \/ StampRule(1)
    \/ SaveRule(1)

\* the operators' workflow is followed on the first alert: alert rows are
\* independent (every handler loads and saves one row by id), so detections
\* arrive until that alert exists
StartHuman(e) ==
    /\ alerts = <<>>
    /\ StartSeq(e)

\* the pipeline together with concurrent acknowledge / resolve requests
NextHuman ==
    \/ Tick
    \/ \E e \in EventIds : StartHuman(e)
    \/ ProcessDetectionStep(1, {2})
    \/ \E q \in Reqs, id \in 1..MaxAlerts, u \in Users :
          LoadAlert(q, "acknowledge", id, u, "")
    \/ \E q \in Reqs, id \in 1..MaxAlerts, u \in Users, notes \in Notes :
          LoadAlert(q, "resolve", id, u, notes)
    \/ \E q \in Reqs : AcknowledgeStamp(q)
    \/ \E q \in Reqs : ResolveStamp(q)
    \/ \E q \in Reqs : SaveAlert(q)
    \/ \E q \in Reqs : WsAcknowledgeAlert(q)
    \/ \E q \in Reqs : WsResolveAlert(q)

\* a database with one active rule and one active recipient on a push channel
InitHuman ==
    /\ epoch = Noon
    /\ rules = [InitRules EXCEPT ![2].is_active = FALSE]
    /\ events = InitEvents
    /\ recipients = [InitRecipients EXCEPT ![2].is_active = FALSE]
    /\ channels = InitChannels
    /\ InitRest

SpecHuman == InitHuman /\ [][NextHuman]_vars

\* the round trip of one user: create, acknowledge, resolve, with requests
\* that may overlap
NextRoundTrip ==
    \/ Tick
    \/ \E e \in EventIds : StartHuman(e)
    \/ ProcessDetectionStep(1, {2})
    \/ \E q \in Reqs, id \in 1..MaxAlerts :
          LoadAlert(q, "acknowledge", id, 1, "")
    \/ \E q \in Reqs, id \in 1..MaxAlerts :
          LoadAlert(q, "resolve", id, 1, "")
    \/ \E q \in Reqs : AcknowledgeStamp(q)
    \/ \E q \in Reqs : ResolveStamp(q)
    \/ \E q \in Reqs : SaveAlert(q)

SpecRoundTrip == InitHuman /\ [][NextRoundTrip]_vars

\* the operations that follow the creation of an alert for event 1, one
\* request at a time: verification of that detection, acknowledge, resolve
\* with and without notes
NextFrame ==
    \/ Tick
    \/ StartHuman(1)
    \/ ProcessDetectionStep(1, {2})
    \/ \E id \in 1..MaxAlerts : LoadAlert(1, "acknowledge", id, 1, "")
    \/ \E id \in 1..MaxAlerts, notes \in Notes :
          LoadAlert(1, "resolve", id, 1, notes)
    \/ AcknowledgeStamp(1)
    \/ ResolveStamp(1)
    \/ SaveAlert(1)
    \/ \E valid \in BOOLEAN : VerifyDetection(1, 1, valid)

SpecFrame == InitHuman /\ [][NextFrame]_vars

\* a database in which every recipient can be resolved
InitWellFormed ==
    /\ epoch = Noon
    /\ rules = InitRules
    /\ events = InitEvents
    /\ recipients = [InitRecipients EXCEPT ![2].is_active = FALSE]
    /\ channels = InitChannels
    /\ InitRest

SpecWellFormed == InitWellFormed /\ [][NextSeq]_vars

SpecBroadcast == InitWellFormed /\ [][NextBroadcast]_vars

\* process_detection calls that do not overlap, their fan-out followed pair
\* by pair; O = the outcomes of the transports
NextStepwise(O) ==
    \/ Tick
    \/ \E e \in EventIds : StartSeq(e)
    \/ Evaluate(1)
    \/ \E ok \in BOOLEAN : CreateAlertFromRule(1, ok)
    \/ ResolveRecipients(1)
    \/ CreateLog(1)
    \/ \E oc \in O : FinishDispatch(1, oc)
    \/ SendRealtimeAlert(1, 2)
    \/ StampRule(1)
    \/ SaveRule(1)

\* recipients 1 and 2 share the webhook channel 2; recipient 2 only takes
\* critical alerts, between 12:00 and 12:01, and also holds the webhook
\* without URL and the inactive channel
InitFanout ==
    /\ epoch = Noon
    /\ rules = [InitRules EXCEPT ![2].is_active = FALSE]
    /\ events = InitEvents
    /\ recipients = [InitRecipients EXCEPT
                        ![1].channels = {1, 2},
                        ![2].channels = {2, 3, 4},
                        ![2].time_restrictions =
                            [start_time |-> 720, end_time |-> 721]]
    /\ channels = InitChannels
    /\ InitRest

NextFanout == NextStepwise(AllTransportOutcomes)

SpecFanout == InitFanout /\ [][NextFanout]_vars

\* recipients 1 and 2 take critical alerts only, on the webhook channel 2
\* (recipient 2 also holds the inactive channel 4): the alerts of event 1
\* have two notifications, those of event 2 have no recipient at all
InitStatus ==
    /\ epoch = Noon
    /\ rules = [InitRules EXCEPT ![2].is_active = FALSE]
    /\ events = InitEvents
    /\ recipients = [InitRecipients EXCEPT
                        ![1].channels = {2},
                        ![1].priority_filter = {"critical"},
                        ![2].channels = {2, 4},
                        ![2].time_restrictions = EmptyDict]
    /\ channels = InitChannels
    /\ InitRest

\* the stepwise pipeline with the handlers that write alerts, or would; the
\* operator works on the first alert while the pipeline goes on
NextStatus ==
    \/ NextStepwise(TransportOutcomes)
    \/ LoadAlert(1, "acknowledge", 1, 1, "")
    \/ LoadAlert(1, "resolve", 1, 1, "")
    \/ AcknowledgeStamp(1)
    \/ ResolveStamp(1)
    \/ SaveAlert(1)
    \/ WsAcknowledgeAlert(1)
    \/ WsResolveAlert(1)

SpecStatus == InitStatus /\ [][NextStatus]_vars

\* starts of run: Monday 12:00, Monday 21:59, Monday 23:00, Tuesday 02:00,
\* Tuesday 05:59 and Sunday 23:59
TimeEpochs == {720, 1319, 1380, 1560, 1799, 10079}

\* time_restrictions payloads: none, weekdays only (Monday, Tuesday, empty
\* list), 22:00-06:00, 06:00-22:00, 12:00-12:00, both kinds together, a
\* start_time alone, and an unparsable start_time behind a weekday list
TimeRestrictionValues ==
    {EmptyDict,
     [allowed_days |-> {0}],
     [allowed_days |-> {1}],
     [allowed_days |-> {}],
     [start_time |-> 1320, end_time |-> 360],
     [start_time |-> 360, end_time |-> 1320],
     [start_time |-> 720, end_time |-> 720],
     [allowed_days |-> {1}, start_time |-> 1320, end_time |-> 360],
     [allowed_days |-> {0, 6}, start_time |-> 360, end_time |-> 1320],
     [start_time |-> 720],
     [allowed_days |-> {1}, start_time |-> BadTime, end_time |-> 360]}

InitTime ==
    /\ epoch \in TimeEpochs
    /\ rules = [InitRules EXCEPT ![2].is_active = FALSE]
    /\ events = InitEvents
    /\ \E tr \in TimeRestrictionValues :
          recipients = [InitRecipients EXCEPT ![1].time_restrictions = tr,
                                              ![2].is_active = FALSE]
    /\ channels = InitChannels
    /\ InitRest

NextTime == NextStepwise({200})

SpecTime == InitTime /\ [][NextTime]_vars

\* rules of the five trigger types that test the event, with their
\* conditions present and absent
ReferenceRules ==
    {Rule(1, "detection_type", [event_types |-> {"theft"}], 1, 2),
     Rule(1, "detection_type", EmptyDict, 1, 2),
     Rule(1, "severity_level", [min_severity |-> "low"], 1, 2),
     Rule(1, "severity_level", [min_severity |-> "medium"], 1, 2),
     Rule(1, "severity_level", [min_severity |-> "high"], 1, 2),
     Rule(1, "severity_level", [min_severity |-> "critical"], 1, 2),
     Rule(1, "severity_level", EmptyDict, 1, 2),
     Rule(1, "confidence_threshold", [min_confidence |-> 6], 1, 2),
     Rule(1, "confidence_threshold", EmptyDict, 1, 2),
     Rule(1, "camera", [camera_ids |-> {1}], 1, 2),
     Rule(1, "camera", EmptyDict, 1, 2),
     Rule(1, "zone", [zone_ids |-> {1, 2}], 1, 2),
     Rule(1, "zone", [zone_ids |-> {3}], 1, 2)}

\* detection events around the thresholds of ReferenceRules
ReferenceEvents ==
    {Event(1, 1, 1, "theft", "critical", 9),
     Event(2, 2, 1, "intrusion", "low", 3),
     Event(1, 2, 1, "theft", "medium", 5),
     Event(2, 1, 1, "suspicious", "high", 6),
     Event(2, 3, 1, "intrusion", "medium", 4)}

InitReference ==
    /\ epoch = Noon
    /\ \E r \in ReferenceRules :
          rules = [InitRules EXCEPT ![1] = r, ![2].is_active = FALSE]
    /\ \E ev \in ReferenceEvents : events = [InitEvents EXCEPT ![1] = ev]
    /\ recipients = [InitRecipients EXCEPT ![2].is_active = FALSE]
    /\ channels = InitChannels
    /\ InitRest

SpecReference == InitReference /\ [][NextSeq]_vars

\* process_detection calls that do not overlap, with toggle_rule requests
\* arriving at any moment
NextToggle ==
    \/ NextSeq
    \/ \E r \in RuleIds : ToggleLoad(r)
    \/ ToggleSave

SpecToggle == InitWellFormed /\ [][NextToggle]_vars

\* a client connecting to the alert feed of a location while detections are
\* processed
NextConnect ==
    \/ NextSeq
    \/ \E loc \in LocationIds : GroupAdd(loc)
    \/ Accept
    \/ SendRecentAlerts

SpecConnect == Init /\ [][NextConnect]_vars

\* starts of the week clock at 0:00, 6:59, 7:00, 12:00, 19:59, 20:00 and
\* 23:00 of a Monday
WindowEpochs == {0, 419, 420, 720, 1199, 1200, 1380}

\* time_window rules: the demo rule "Intrusion Nocturne" (20 -> 7), windows
\* within one day, a one-hour window, both kinds together, and no window
WindowRules ==
    {Rule(1, "time_window", [time_windows |-> <<[start |-> 20, end |-> 7]>>],
          1, 1),
     Rule(1, "time_window", [time_windows |-> <<[start |-> 12, end |-> 13]>>],
          1, 1),
     Rule(1, "time_window", [time_windows |-> <<[start |-> 7, end |-> 7]>>],
          1, 0),
     Rule(1, "time_window",
          [time_windows |-> <<[start |-> 20, end |-> 7],
                              [start |-> 22, end |-> 6]>>], 1, 0),
     Rule(1, "time_window",
          [time_windows |-> <<[start |-> 20, end |-> 7],
                              [start |-> 20, end |-> 23]>>], 1, 2),
     Rule(1, "time_window", [time_windows |-> <<>>], 1, 0),
     Rule(1, "time_window", EmptyDict, 1, 0)}

InitWindow ==
    /\ epoch \in WindowEpochs
    /\ \E r \in WindowRules :
          rules = [InitRules EXCEPT ![1] = r, ![2].is_active = FALSE]
    /\ events = InitEvents
    /\ recipients = [InitRecipients EXCEPT ![2].is_active = FALSE]
    /\ channels = InitChannels
    /\ InitRest

SpecWindow == InitWindow /\ [][NextSeq]_vars

\* one rule of every trigger type, known and unknown, well-formed and not
MatchRules ==
    {Rule(1, "detection_type", [event_types |-> {"theft"}], 1, 2),
     Rule(1, "severity_level", [min_severity |-> "high"], 1, 2),
     Rule(1, "confidence_threshold", [min_confidence |-> 9], 1, 2),
     Rule(1, "confidence_threshold", EmptyDict, 1, 1),
     Rule(1, "camera", [camera_ids |-> {1}], 1, 2),
     Rule(1, "zone", [zone_ids |-> {2}], 1, 2),
     Rule(1, "time_window", [time_windows |-> <<[start |-> 12, end |-> 13]>>],
          1, 2),
     Rule(1, "time_window", [time_windows |-> <<[start |-> 12]>>], 1, 2),
     Rule(1, "custom", EmptyDict, 1, 2)}

InitMatch ==
    /\ epoch = Noon
    /\ \E r \in MatchRules :
          rules = [InitRules EXCEPT ![1] = r, ![2].is_active = FALSE]
    /\ events = InitEvents
    /\ recipients = [InitRecipients EXCEPT ![2].is_active = FALSE]
    /\ channels = InitChannels
    /\ InitRest

SpecMatch == InitMatch /\ [][NextSeq]_vars

---------------------------------------------------------------------------
(* Claims *)

AlertIds == 1..Len(alerts)

Running(p) == proc[p].pc # "idle"

\* the process_detection call of p has ended (returned or raised)
Ended(p) == proc[p].pc = "idle" /\ proc[p].outcome # "none"

Abs(x) == IF x < 0 THEN -x ELSE x

\* C1: two process_detection calls that run at the same time never both
\* create an alert for the same rule within the rule's cooldown.
C1_OneAlertFromConcurrentCalls ==
    \A p, q \in Procs :
        (p # q /\ Running(p) /\ Running(q)) =>
            \A a \in proc[p].created, b \in proc[q].created :
                alerts[a].alert_rule = alerts[b].alert_rule =>
                    Abs(alerts[a].created_at - alerts[b].created_at)
                        >= rules[alerts[a].alert_rule].cooldown_minutes

\* C2: whenever should_trigger_alert is called on a rule whose last_triggered
\* is set and less than cooldown_minutes old, it returns false, whatever the
\* trigger type and whether or not the event satisfies the condition.
C2_CooldownDominates ==
    \A p \in Procs :
        (proc[p].eval.idx # 0 /\ InCooldown(proc[p].eval.rule, proc[p].eval.at))
            => ~proc[p].eval.result

\* a rule of unknown trigger type, in cooldown, evaluated against an event:
\* its condition matches and the call returned false
C2_Witness ==
    \E p \in Procs :
        /\ proc[p].eval.idx # 0
        /\ InCooldown(proc[p].eval.rule, proc[p].eval.at)
        /\ proc[p].eval.rule.trigger_type \notin KnownTriggerTypes
        /\ ConditionMatches(proc[p].eval.rule, events[proc[p].event], epoch,
                            proc[p].eval.at)
        /\ ~proc[p].eval.result

\* C3: in a series of calls that do not overlap, two alerts of the same rule
\* are at least cooldown_minutes apart.
C3_AlertsSpacedByCooldown ==
    \A a, b \in AlertIds :
        (a < b /\ alerts[a].alert_rule = alerts[b].alert_rule) =>
            alerts[b].created_at - alerts[a].created_at
                >= rules[alerts[a].alert_rule].cooldown_minutes

\* C4: no write of a rule's last_triggered stores a value smaller than the
\* one it replaces.
C4_LastTriggeredMonotonic ==
    [][\A r \in RuleIds :
          rules'[r].last_triggered >= rules[r].last_triggered]_vars

\* C5 (as stated): at most one alert exists for any (rule, event) pair.
C5_OneAlertPerRuleEventPair ==
    \A a, b \in AlertIds :
        a < b => ~(/\ alerts[a].alert_rule = alerts[b].alert_rule
                   /\ alerts[a].detection_event = alerts[b].detection_event)

\* C5 (amended): one process_detection call creates at most one alert per
\* (rule, event) pair, and exactly one, for its own event, for each rule whose
\* match passed the cooldown and whose creation succeeded.
C5_OneAlertPerMatchPerCall ==
    /\ \A a, b \in AlertIds :
          (a < b /\ alerts[a].call = alerts[b].call) =>
              alerts[a].alert_rule # alerts[b].alert_rule
    /\ \A p \in Procs :
          proc[p].call # 0 =>
              /\ proc[p].created = {a \in AlertIds : alerts[a].call = proc[p].call}
              /\ \A a \in proc[p].created :
                    alerts[a].detection_event = proc[p].event
              /\ proc[p].pc \in {"notify", "stamp", "save"} =>
                    /\ proc[p].alert \in proc[p].created
                    /\ alerts[proc[p].alert].alert_rule
                          = proc[p].rs[proc[p].idx].id
                    /\ Cardinality({a \in AlertIds :
                          /\ alerts[a].call = proc[p].call
                          /\ alerts[a].alert_rule = proc[p].rs[proc[p].idx].id})
                       = 1

\* the same event processed by two calls: the second call has created an
\* alert for a (rule, event) pair that already had one
C5_Witness ==
    \E a, b \in AlertIds :
        /\ a < b
        /\ alerts[a].alert_rule = alerts[b].alert_rule
        /\ alerts[a].detection_event = alerts[b].detection_event
        /\ alerts[a].call # alerts[b].call
        /\ \E p \in Procs : proc[p].pc = "save" /\ proc[p].alert = b

\* C10: when a process_detection call ends, the rule of every alert it
\* created has last_triggered set, not earlier than the alert's creation.
C10_TriggeredRuleUpdated ==
    \A p \in Procs :
        Ended(p) =>
            \A a \in proc[p].created :
                /\ rules[alerts[a].alert_rule].last_triggered # NULL
                /\ rules[alerts[a].alert_rule].last_triggered
                      >= alerts[a].created_at


\* order of the alert statuses along pending -> {sent, failed} ->
\* acknowledged -> resolved
StatusRank(st) ==
    CASE st = "pending" -> 0
      [] st \in {"sent", "failed"} -> 1
      [] st = "acknowledged" -> 2
      [] st = "resolved" -> 3

\* C6: no write moves an alert to an earlier status, and an alert becomes
\* resolved only from acknowledged.
C6_StatusMonotonic ==
    [][\A id \in AlertIds :
          /\ StatusRank(alerts'[id].status) >= StatusRank(alerts[id].status)
          /\ (alerts'[id].status = "resolved" /\ alerts[id].status # "resolved")
                => alerts[id].status = "acknowledged"]_vars

\* C7: the first writer wins: once an acknowledger is recorded it stays
\* recorded, and a resolved alert stays resolved with resolved_at set.
C7_FirstWriterWins ==
    [][\A id \in AlertIds :
          /\ alerts[id].acknowledged_by # NoUser =>
                /\ alerts'[id].acknowledged_by = alerts[id].acknowledged_by
                /\ alerts'[id].acknowledged_at = alerts[id].acknowledged_at
          /\ alerts[id].status = "resolved" =>
                /\ alerts'[id].status = "resolved"
                /\ alerts'[id].resolved_at # NULL]_vars

\* C8: the save of a resolve request that read the alert as resolved leaves
\* the row as it was.
C8_ResolveTwiceIsNoOp ==
    [][\A q \in Reqs :
          (/\ req[q].pc = "stamped"
           /\ req[q].kind = "resolve"
           /\ req[q].loaded = "resolved"
           /\ req'[q].pc = "idle")
          => alerts'[req[q].id] = alerts[req[q].id]]_vars

\* C9: an alert is created pending; an acknowledge that read it pending
\* writes acknowledged and a resolve that read it acknowledged writes
\* resolved; the timestamps that are set satisfy
\* resolved_at >= acknowledged_at >= created_at.
C9_RoundTrip ==
    \A id \in AlertIds :
        LET a == alerts[id]
            h == statusLog[id]
        IN /\ h[1] = [op |-> "create", from |-> "none", to |-> "pending"]
           /\ \A k \in 2..Len(h) :
                 /\ (h[k].op = "acknowledge" /\ h[k].from = "pending")
                       => h[k].to = "acknowledged"
                 /\ (h[k].op = "resolve" /\ h[k].from = "acknowledged")
                       => h[k].to = "resolved"
           /\ a.status = h[Len(h)].to
           /\ a.acknowledged_at # NULL => a.acknowledged_at >= a.created_at
           /\ a.resolved_at # NULL => a.resolved_at >= a.created_at
           /\ (a.acknowledged_at # NULL /\ a.resolved_at # NULL)
                 => a.resolved_at >= a.acknowledged_at

\* an alert created by the pipeline, acknowledged one minute later and
\* resolved one minute after that
C9_Witness ==
    \E id \in AlertIds :
        /\ Len(statusLog[id]) = 3
        /\ statusLog[id][2] = [op |-> "acknowledge", from |-> "pending",
                               to |-> "acknowledged"]
        /\ statusLog[id][3] = [op |-> "resolve", from |-> "acknowledged",
                               to |-> "resolved"]
        /\ alerts[id].status = "resolved"
        /\ alerts[id].acknowledged_at > alerts[id].created_at
        /\ alerts[id].resolved_at > alerts[id].acknowledged_at

\* the number of rules a call of p loops over
NRules(p) == Len(ApplicableRules(events[proc[p].event].location))

\* C11: the step in which the creation of an alert fails writes no Alert, no
\* NotificationLog and no rule (last_triggered included), and the call goes
\* on with the next rule: a call that returned has evaluated every active
\* rule of the location.
C11_CreationFailureContained ==
    /\ [][\A p \in Procs :
            (proc[p].pc = "create" /\ proc'[p].pc \notin {"create", "notify"})
                => /\ alerts' = alerts
                   /\ logs' = logs
                   /\ rules' = rules
                   /\ channels' = channels
                   /\ published' = published]_vars
    /\ [](\A p \in Procs :
            /\ \A i \in proc[p].failed :
                  i < NRules(p) =>
                      \/ proc[p].evaluated > i
                      \/ proc[p].pc = "loop" /\ proc[p].idx = i + 1
            /\ (Ended(p) /\ proc[p].outcome = "returned")
                  => proc[p].evaluated = NRules(p))

\* the creation failed for the first rule; the call evaluated the second
\* rule, created its alert and returned; nothing exists for the first rule
C11_Witness ==
    \E p \in Procs :
        /\ Ended(p)
        /\ proc[p].outcome = "returned"
        /\ proc[p].failed = {1}
        /\ proc[p].evaluated = 2
        /\ \E a \in proc[p].created : alerts[a].alert_rule = 2
        /\ \A a \in AlertIds : alerts[a].alert_rule # 1
        /\ rules[1].last_triggered = NULL

\* C12: a call that meets a rule with malformed trigger_conditions does not
\* raise: it returns, having evaluated every active rule of the location.
C12_MalformedRuleSkipped ==
    \A p \in Procs :
        Ended(p) => /\ proc[p].outcome = "returned"
                    /\ proc[p].evaluated = NRules(p)

\* C14: when the call ends, every alert it created has been broadcast and has
\* a log for each recipient that can be resolved, and every active rule has
\* been evaluated, whatever the other recipients hold.
C14_RecipientFailureContained ==
    \A p \in Procs :
        Ended(p) =>
            /\ proc[p].evaluated = NRules(p)
            /\ \A a \in proc[p].created :
                  /\ \E m \in published : m.alert = a
                  /\ \A r \in CandidateRecipients(alerts[a]) :
                        (/\ PassesPriorityFilter(recipients[r], alerts[a])
                         /\ recipients[r].time_restrictions = EmptyDict
                         /\ \E c \in recipients[r].channels :
                               channels[c].is_active)
                        => \E i \in 1..Len(logs) :
                              /\ logs[i].alert = a
                              /\ logs[i].recipient = recipients[r].user

\* the fan-out of the alert of p is over
FanoutDone(p) == proc[p].pc \in {"broadcast", "stamp", "save"}

\* the logs of an alert
LogsOf(a) == {j \in 1..Len(logs) : logs[j].alert = a}

\* C13: once the fan-out of an alert is over, the adapter has been invoked
\* for every (recipient, channel) pair resolved for the alert, whatever the
\* outcome of the other pairs.
C13_DispatchFailureContained ==
    \A p \in Procs :
        FanoutDone(p) =>
            \A i \in 1..Len(proc[p].pairs) :
                \E j \in LogsOf(proc[p].alert) :
                    /\ logs[j].channel = proc[p].pairs[i].channel
                    /\ logs[j].recipient
                          = recipients[proc[p].pairs[i].recipient].user
                    /\ logs[j].attempts >= 1

\* a fan-out in which a transport raised for one pair, a later pair was sent
\* and the pair after it failed on the webhook without URL
C13_Witness ==
    \E p \in Procs :
        /\ FanoutDone(p)
        /\ \E j1, j2, j3 \in LogsOf(proc[p].alert) :
              /\ j1 < j2 /\ j2 < j3
              /\ logs[j1].raised /\ logs[j1].status = "failed"
              /\ logs[j2].status = "sent"
              /\ logs[j3].channel = 3 /\ logs[j3].status = "failed"

\* the (recipient, channel) pairs entitled to a notification of alert a at
\* time t
QualifyingPairs(a, t) ==
    {pair \in RecipientIds \X ChannelIds :
        LET rc == recipients[pair[1]] IN
        /\ rc.is_active
        /\ rc.location = events[a.detection_event].location
        /\ (rc.priority_filter = {} \/ a.priority \in rc.priority_filter)
        /\ IsWithinTimeRestrictions(rc.time_restrictions, epoch, t)
        /\ pair[2] \in rc.channels
        /\ channels[pair[2]].is_active}

\* C15: once the fan-out of an alert is over, its logs are exactly one per
\* pair of a recipient that is active, of the alert's location, accepts the
\* alert's priority and is within its time restrictions, and an active
\* channel of that recipient.
C15_OneLogPerQualifyingPair ==
    \A p \in Procs :
        FanoutDone(p) =>
            LET Q == QualifyingPairs(alerts[proc[p].alert], proc[p].at)
                L == LogsOf(proc[p].alert)
            IN /\ Cardinality(L) = Cardinality(Q)
               /\ \A pair \in Q :
                     Cardinality({j \in L :
                        /\ logs[j].recipient = recipients[pair[1]].user
                        /\ logs[j].channel = pair[2]}) = 1

\* a critical alert at noon: the webhook shared by recipients 1 and 2 has
\* two logs, the inactive channel, the inactive recipient and the recipient
\* of the other location have none
C15_Witness ==
    \E p \in Procs :
        /\ FanoutDone(p)
        /\ Cardinality({j \in LogsOf(proc[p].alert) : logs[j].channel = 2}) = 2
        /\ \A j \in 1..Len(logs) :
              logs[j].channel # 4 /\ logs[j].recipient \notin {3, 4}

\* C16: for a recipient whose time restrictions were checked at minute m of
\* weekday d: empty restrictions pass; a non-empty allowed_days without d
\* fails whatever the window; otherwise, with start_time and end_time both
\* set, the check passes exactly when start <= m <= end (start <= end) or
\* when m >= start or m <= end (start > end).
C16_TimeRestrictions ==
    \A p \in Procs :
        proc[p].at # NULL =>
            \A r \in RecipientIds :
                LET rc == recipients[r]
                    tr == rc.time_restrictions
                    m == (epoch + proc[p].at) % 1440
                    d == ((epoch + proc[p].at) \div 1440) % 7
                    passed == r \in proc[p].filtered
                    excluded == /\ "allowed_days" \in DOMAIN tr
                                /\ tr.allowed_days # {}
                                /\ d \notin tr.allowed_days
                IN (/\ rc.is_active
                    /\ rc.location = events[proc[p].event].location
                    /\ rc.priority_filter = {})
                   => /\ tr = EmptyDict => passed
                      /\ excluded => ~passed
                      /\ (~excluded
                             /\ {"start_time", "end_time"} \subseteq DOMAIN tr)
                           => (passed <=>
                                 IF tr.start_time <= tr.end_time
                                 THEN tr.start_time <= m /\ m <= tr.end_time
                                 ELSE m >= tr.start_time \/ m <= tr.end_time)

\* the window 22:00-06:00 checked at 02:00: the recipient is retained
C16_Witness ==
    \E p \in Procs :
        /\ proc[p].at # NULL
        /\ (epoch + proc[p].at) % 1440 = 120
        /\ recipients[1].time_restrictions
              = [start_time |-> 1320, end_time |-> 360]
        /\ 1 \in proc[p].filtered

\* C17: a log is created pending, is sending while the adapter runs, becomes
\* sent or failed only from sending, and never delivered, bounced or read.
C17_LogLifecycle ==
    [][/\ \A j \in 1..Len(logs') :
            IF j > Len(logs) THEN logs'[j].status = "pending"
            ELSE logs'[j].status # logs[j].status =>
                    \/ logs[j].status = "pending"
                          /\ logs'[j].status = "sending"
                    \/ logs[j].status = "sending"
                          /\ logs'[j].status \in {"sent", "failed"}
       /\ \A p \in Procs :
            proc'[p].pc = "adapter" => logs'[proc'[p].log].status = "sending"
      ]_vars

\* what the adapter of channel ch reported for the dispatch recorded in log l
ReportedSuccess(l, ch) ==
    CASE ch.channel_type = "webhook" ->
            /\ "status_code" \in DOMAIN l.metadata
            /\ l.metadata.status_code < 400
      [] ch.channel_type = "email" -> ~l.raised
      [] ch.channel_type = "push" -> TRUE
      [] OTHER -> FALSE

\* C18: the step that finishes a dispatch leaves the log sent, with sent_at
\* set, and advances the channel's last_used when the adapter reported
\* success; otherwise it leaves the log failed with an error message and no
\* sent_at, and the channel's last_used as it was.
C18_OutcomeRecorded ==
    [][\A p \in Procs :
          (proc[p].pc = "adapter" /\ proc'[p].pc # "adapter") =>
              LET l == logs'[proc[p].log]
                  c == l.channel
              IN IF ReportedSuccess(l, channels[c])
                 THEN /\ l.status = "sent"
                      /\ l.sent_at = now
                      /\ channels'[c].last_used = now
                 ELSE /\ l.status = "failed"
                      /\ l.error_message # ""
                      /\ l.sent_at = NULL
                      /\ channels'[c].last_used = channels[c].last_used]_vars

\* the webhook answered 200 to one dispatch and 500 to a later one
C18_Witness ==
    \E j1, j2 \in 1..Len(logs) :
        /\ j1 < j2
        /\ logs[j1].channel = 2 /\ logs[j2].channel = 2
        /\ logs[j1].metadata = [status_code |-> 200]
        /\ logs[j1].status = "sent"
        /\ logs[j1].sent_at # NULL
        /\ channels[2].last_used = logs[j1].sent_at
        /\ logs[j2].metadata = [status_code |-> 500]
        /\ logs[j2].status = "failed"
        /\ now > logs[j1].sent_at

\* C19: the adapter is invoked at most once per log and retry_count stays 0;
\* a failed log stays failed.
C19_NoRetry ==
    /\ [](\A j \in 1..Len(logs) :
            logs[j].attempts <= 1 /\ logs[j].retry_count = 0)
    /\ [][\A j \in 1..Len(logs) :
            logs[j].status = "failed" => logs'[j].status = "failed"]_vars

\* a failed log, tried once, still failed after a later call has run its
\* own fan-out
C19_Witness ==
    \E j, k \in 1..Len(logs) :
        /\ j < k
        /\ logs[j].status = "failed"
        /\ logs[j].attempts = 1
        /\ logs[j].retry_count = 0
        /\ logs[k].alert # logs[j].alert
        /\ logs[k].status = "sent"

\* C20: a log whose transport raised, or whose webhook answered with a
\* status that is not 2xx, is failed.
C20_TransportErrorsFail ==
    \A j \in 1..Len(logs) :
        (\/ logs[j].raised
         \/ /\ "status_code" \in DOMAIN logs[j].metadata
            /\ logs[j].metadata.status_code \notin 200..299)
        => logs[j].status = "failed"

\* both messages of send_realtime_alert for alert a are with the channel layer
Broadcast(a) ==
    /\ \E m \in published :
          /\ m.alert = a
          /\ m.type = "new_alert"
          /\ m.group = "alerts"
          /\ m.location = events[alerts[a].detection_event].location
    /\ \E m \in published :
          /\ m.alert = a
          /\ m.type = "dashboard_update"
          /\ m.group = "dashboard"

\* C22: a call during which the broadcast of an alert failed still returns:
\* the alerts it created are stored and in its result list, the rule of each
\* has last_triggered advanced and every active rule has been evaluated.
C22_BroadcastFailureContained ==
    \A p \in Procs :
        (Ended(p) /\ \E a \in proc[p].created : ~Broadcast(a)) =>
            /\ proc[p].outcome = "returned"
            /\ proc[p].evaluated = NRules(p)
            /\ \A a \in proc[p].created :
                  /\ a \in AlertIds
                  /\ alerts[a].call = proc[p].call
                  /\ rules[alerts[a].alert_rule].last_triggered
                        >= alerts[a].created_at

\* a call that created an alert for each of the two rules and returned while
\* the channel layer was unavailable
C22_Witness ==
    \E p \in Procs :
        /\ Ended(p)
        /\ proc[p].outcome = "returned"
        /\ Cardinality(proc[p].created) = 2
        /\ published = {}
        /\ \A r \in RuleIds : rules[r].last_triggered # NULL

\* C23: while the dispatch to one pair is in flight and other pairs of the
\* alert remain, the dispatch to another pair can start.
C23_OtherDispatchesCanStart ==
    \A p \in Procs :
        (proc[p].pc = "adapter" /\ proc[p].k < Len(proc[p].pairs))
            => ENABLED CreateLog(p)

\* ordinal of a severity: low=0, medium=1, high=2, critical=3
SeverityOrdinal(sv) ==
    CASE sv = "low" -> 0
      [] sv = "medium" -> 1
      [] sv = "high" -> 2
      [] sv = "critical" -> 3

\* C24: a should_trigger_alert call on a rule outside its cooldown returns
\* the reference predicate of the rule's trigger type: membership of the
\* event type, of the camera id, of the zone id; severity ordinal at least
\* that of min_severity; confidence at least min_confidence (default 0.5).
C24_MatchesReference ==
    \A p \in Procs :
        LET e == proc[p].eval
            r == e.rule
            c == r.trigger_conditions
            ev == events[proc[p].event]
        IN (/\ e.idx # 0
            /\ (r.last_triggered = NULL
                  \/ e.at - r.last_triggered >= r.cooldown_minutes))
           => /\ r.trigger_type = "detection_type" =>
                    (e.result <=> /\ "event_types" \in DOMAIN c
                                  /\ ev.event_type \in c.event_types)
              /\ r.trigger_type = "severity_level" =>
                    (e.result <=>
                        SeverityOrdinal(ev.severity) >=
                            (IF "min_severity" \in DOMAIN c
                             THEN SeverityOrdinal(c.min_severity) ELSE 0))
              /\ r.trigger_type = "confidence_threshold" =>
                    (e.result <=>
                        ev.confidence >=
                            (IF "min_confidence" \in DOMAIN c
                             THEN c.min_confidence ELSE 5))
              /\ r.trigger_type = "camera" =>
                    (e.result <=> /\ "camera_ids" \in DOMAIN c
                                  /\ ev.camera_id \in c.camera_ids)
              /\ r.trigger_type = "zone" =>
                    (e.result <=> /\ "zone_ids" \in DOMAIN c
                                  /\ ev.zone_id \in c.zone_ids)

\* a confidence_threshold rule without min_confidence evaluated against an
\* event of confidence exactly 0.5: it matched
C24_Witness ==
    \E p \in Procs :
        /\ proc[p].eval.idx # 0
        /\ proc[p].eval.rule.trigger_type = "confidence_threshold"
        /\ proc[p].eval.rule.trigger_conditions = EmptyDict
        /\ events[proc[p].event].confidence = 5
        /\ proc[p].eval.result

\* C25: a should_trigger_alert call on a rule of unknown trigger type returns
\* true exactly when the rule is outside its cooldown; the alert that follows
\* is for the event of the call, and two alerts of such a rule are at least
\* cooldown_minutes apart.
C25_UnknownTypeMatchesAll ==
    /\ \A p \in Procs :
          LET e == proc[p].eval IN
          (e.idx # 0 /\ e.rule.trigger_type \notin KnownTriggerTypes)
              => (e.result <=>
                    (e.rule.last_triggered = NULL
                       \/ e.at - e.rule.last_triggered
                             >= e.rule.cooldown_minutes))
    /\ \A p \in Procs :
          (/\ proc[p].pc \in {"notify", "stamp", "save"}
           /\ proc[p].rs[proc[p].idx].row.trigger_type \notin KnownTriggerTypes)
              => /\ alerts[proc[p].alert].detection_event = proc[p].event
                 /\ alerts[proc[p].alert].alert_rule = proc[p].rs[proc[p].idx].id
    /\ \A a, b \in AlertIds :
          (/\ a < b
           /\ alerts[a].alert_rule = alerts[b].alert_rule
           /\ rules[alerts[a].alert_rule].trigger_type \notin KnownTriggerTypes)
              => alerts[b].created_at - alerts[a].created_at
                    >= rules[alerts[a].alert_rule].cooldown_minutes

\* a rule of trigger type "custom" has produced an alert for each of the two
\* events, the second one cooldown after the first
C25_Witness ==
    \E a, b \in AlertIds :
        /\ a < b
        /\ alerts[a].alert_rule = alerts[b].alert_rule
        /\ rules[alerts[a].alert_rule].trigger_type = "custom"
        /\ alerts[a].detection_event # alerts[b].detection_event
        /\ alerts[b].created_at - alerts[a].created_at
              = rules[alerts[a].alert_rule].cooldown_minutes

MetadataSnapshotKeys == {"camera_id", "zone_id", "confidence", "severity"}

\* C26: the camera_id, zone_id, confidence and severity entries of an
\* alert's metadata are those of its detection event when the alert is
\* created, and no later step changes them.
C26_MetadataSnapshotFrozen ==
    [][\A id \in 1..Len(alerts') :
          /\ MetadataSnapshotKeys \subseteq DOMAIN alerts'[id].metadata
          /\ IF id \in AlertIds
             THEN \A key \in MetadataSnapshotKeys :
                     alerts'[id].metadata[key] = alerts[id].metadata[key]
             ELSE LET ev == events[alerts'[id].detection_event] IN
                  /\ alerts'[id].metadata.camera_id = ev.camera_id
                  /\ alerts'[id].metadata.zone_id = ev.zone_id
                  /\ alerts'[id].metadata.confidence = ev.confidence
                  /\ alerts'[id].metadata.severity = ev.severity]_vars

\* an alert resolved with notes whose detection has been marked as a false
\* positive: the four entries are still in its metadata
C26_Witness ==
    \E id \in AlertIds :
        /\ alerts[id].status = "resolved"
        /\ "resolution_notes" \in DOMAIN alerts[id].metadata
        /\ events[alerts[id].detection_event].is_verified
        /\ events[alerts[id].detection_event].false_positive
        /\ MetadataSnapshotKeys \subseteq DOMAIN alerts[id].metadata

\* the hour of the day at minute t of a run started at minute ep of the week
CurrentHour(ep, t) == ((ep + t) \div 60) % 24

\* the windows configured on a rule
WindowsOf(r) ==
    IF "time_windows" \in DOMAIN r.trigger_conditions
    THEN r.trigger_conditions.time_windows ELSE <<>>

\* C27: outside its cooldown a time_window rule matches exactly when the
\* current hour h has start <= h <= end for one of its windows, with no wrap
\* across midnight: a rule whose windows all have start > end matches at no
\* hour and has no alert.
C27_TimeWindowNoWrap ==
    /\ \A p \in Procs :
          LET e == proc[p].eval
              ws == WindowsOf(e.rule)
              h == CurrentHour(epoch, e.at)
          IN (/\ e.idx # 0
              /\ e.rule.trigger_type = "time_window"
              /\ (e.rule.last_triggered = NULL
                    \/ e.at - e.rule.last_triggered
                          >= e.rule.cooldown_minutes))
             => /\ e.result <=> \E i \in 1..Len(ws) :
                                    ws[i].start <= h /\ h <= ws[i].end
                /\ (\A i \in 1..Len(ws) : ws[i].start > ws[i].end)
                      => ~e.result
    /\ \A r \in RuleIds :
          (/\ rules[r].trigger_type = "time_window"
           /\ \A i \in 1..Len(WindowsOf(rules[r])) :
                 WindowsOf(rules[r])[i].start > WindowsOf(rules[r])[i].end)
              => \A a \in AlertIds : alerts[a].alert_rule # r

\* the demo rule (20 -> 7) evaluated at 23:00, outside its cooldown: no match,
\* and the call has ended without an alert
C27_Witness ==
    \E p \in Procs :
        /\ proc[p].eval.idx # 0
        /\ proc[p].eval.rule.trigger_conditions
              = [time_windows |-> <<[start |-> 20, end |-> 7]>>]
        /\ CurrentHour(epoch, proc[p].eval.at) = 23
        /\ ~proc[p].eval.result
        /\ calls >= 1
        /\ alerts = <<>>

\* C28: an alert is created pending with sent_at unset; no step of the
\* pipeline changes the status or sent_at of an alert, only the save of an
\* acknowledge or resolve request moves it, to acknowledged or resolved; the
\* statuses sent and failed are never reached.
C28_PipelineLeavesStatus ==
    /\ [](\A a \in AlertIds :
             /\ alerts[a].status \in {"pending", "acknowledged", "resolved"}
             /\ alerts[a].sent_at = NULL)
    /\ [][\A id \in 1..Len(alerts') :
             IF id \in AlertIds
             THEN /\ alerts'[id].sent_at = alerts[id].sent_at
                  /\ alerts'[id].status # alerts[id].status
                        => /\ proc' = proc
                           /\ \E q \in Reqs :
                                 /\ req[q].pc = "stamped"
                                 /\ req[q].id = id
                                 /\ req[q].kind \in {"acknowledge", "resolve"}
                                 /\ req'[q] # req[q]
                           /\ alerts'[id].status
                                 \in {"acknowledged", "resolved"}
             ELSE /\ alerts'[id].status = "pending"
                  /\ alerts'[id].sent_at = NULL]_vars
    /\ [](\A p \in Procs, a \in AlertIds :
             (Ended(p) /\ nreq = 0) => alerts[a].status = "pending")

\* two calls have ended, untouched by any operator: every notification of
\* the first alert was sent, every notification of the second failed, and
\* both alerts are pending
C28_Witness ==
    /\ Ended(1) /\ nreq = 0
    /\ \E a, b \in AlertIds :
          /\ Cardinality(LogsOf(a)) = 2 /\ Cardinality(LogsOf(b)) = 2
          /\ \A j \in LogsOf(a) : logs[j].status = "sent"
          /\ \A j \in LogsOf(b) : logs[j].status = "failed"
          /\ alerts[a].status = "pending" /\ alerts[a].sent_at = NULL
          /\ alerts[b].status = "pending" /\ alerts[b].sent_at = NULL

\* C29: the rule.save() of process_detection changes no field of the rule
\* row other than last_triggered; an is_active value committed by
\* toggle_rule since the call loaded the rule is still there after the save.
C29_SaveKeepsOtherFields ==
    [][\A p \in Procs :
          (proc[p].pc = "save" /\ proc'[p].pc # "save") =>
              \A r \in RuleIds :
                  [rules'[r] EXCEPT !.last_triggered = NULL]
                      = [rules[r] EXCEPT !.last_triggered = NULL]]_vars

\* C30: once connect has completed and no process_detection call is running,
\* every alert of the client's location that is pending, sent or
\* acknowledged is in its recent_alerts snapshot or has reached it as a
\* new_alert message.
C30_NoAlertMissed ==
    (client.pc = "open" /\ \A p \in Procs : ~Running(p)) =>
        \A a \in AlertIds :
            (/\ events[alerts[a].detection_event].location = client.location
             /\ alerts[a].status \in {"pending", "sent", "acknowledged"})
                => a \in client.snapshot \cup NewAlertsReceived

\* C21: every alert that is created is eventually published as new_alert to
\* the topic of its location and as dashboard_update to the dashboard topic,
\* whatever happened to its notifications.
C21_EventuallyBroadcast ==
    \A a \in 1..MaxAlerts : (a \in AlertIds) ~> (a \in AlertIds /\ Broadcast(a))

====
